---- MODULE Spec2Model ----
(***************************************************************************)
(* Model of the RAG ingestion-and-query pipeline of new-ai-project:        *)
(*   backend/tasks/reddit_service.py  extract_post_id_from_url,            *)
(*                                    index_reddit_post, query_reddit_post *)
(*   backend/tasks/rag_service.py     index_document, query_document       *)
(*   backend/tasks/views.py           DocumentViewSet, QueryDocumentView   *)
(*                                                                         *)
(* Python strings are TLA+ strings (sequences of characters); a Python     *)
(* value that may be None is a record [t |-> "None"] or                    *)
(* [t |-> "str", v |-> s].  An exception is a record with raised = TRUE;   *)
(* the code raises ValueError everywhere, so the error is identified by    *)
(* the message template it was built from (field kind) and the text that   *)
(* was interpolated into it (field msg).                                   *)
(***************************************************************************)
EXTENDS Integers, Sequences, FiniteSets, TLC

VARIABLES
    settings,   \* django settings: which credentials are configured
    store,      \* ChromaDB under CHROMA_DB_PATH: collection name -> passages
    docs,       \* the Document table: id -> "absent" | "saved" | "indexed"
    nextId,     \* next primary key of the Document table
    history,    \* ghost: per collection, the index calls that wrote to it
    response,   \* what the last service call / request returned
    call,       \* arguments of the pure function under evaluation
    ret         \* its result

vars == <<settings, store, docs, nextId, history, response, call, ret>>

-----------------------------------------------------------------------------
(* Python values and strings *)

None == [t |-> "None"]
Str(s) == [t |-> "str", v |-> s]

PyInt(n) == [t |-> "int", v |-> n]

\* Python truthiness: None, "" and 0 are falsy.
Truthy(x) == (x.t = "str" /\ x.v # "") \/ (x.t = "int" /\ x.v # 0)

Range(f) == {f[i] : i \in DOMAIN f}

Char(s, i) == SubSeq(s, i, i)

Whitespace == {" ", "\t", "\n", "\r"}

RECURSIVE LStrip(_)
LStrip(s) ==
    IF Len(s) > 0 /\ Char(s, 1) \in Whitespace THEN LStrip(Tail(s)) ELSE s

RECURSIVE RStrip(_)
RStrip(s) ==
    IF Len(s) > 0 /\ Char(s, Len(s)) \in Whitespace
    THEN RStrip(SubSeq(s, 1, Len(s) - 1))
    ELSE s

\* str.strip()
Strip(s) == RStrip(LStrip(s))

UpperChars == "ABCDEFGHIJKLMNOPQRSTUVWXYZ"
LowerChars == "abcdefghijklmnopqrstuvwxyz"
DigitChars == "0123456789"

CharsOf(s) == {Char(s, i) : i \in 1..Len(s)}

LowerMap ==
    [c \in CharsOf(UpperChars) |->
        Char(LowerChars, CHOOSE i \in 1..Len(UpperChars) : Char(UpperChars, i) = c)]

LowerChar(c) == IF c \in DOMAIN LowerMap THEN LowerMap[c] ELSE c

RECURSIVE Lower(_)
\* str.lower()
Lower(s) == IF s = "" THEN "" ELSE LowerChar(Char(s, 1)) \o Lower(Tail(s))

\* s[i:] starts with lit (i is 1-based)
StartsAt(s, i, lit) ==
    i + Len(lit) - 1 <= Len(s) /\ SubSeq(s, i, i + Len(lit) - 1) = lit

\* Python's  sub in s
Contains(s, sub) == \E i \in 1..(Len(s) + 1) : StartsAt(s, i, sub)

RECURSIVE Rep(_, _)
Rep(s, n) == IF n <= 0 THEN "" ELSE s \o Rep(s, n - 1)

RECURSIVE Join(_, _)
\* sep.join(parts)
Join(sep, parts) ==
    IF Len(parts) = 0 THEN ""
    ELSE IF Len(parts) = 1 THEN parts[1]
    ELSE parts[1] \o sep \o Join(sep, Tail(parts))

-----------------------------------------------------------------------------
(* extract_post_id_from_url: re.search(r'/comments/([a-zA-Z0-9]+)/', url) *)

CommentsLiteral == "/comments/"

\* the character class [a-zA-Z0-9]
AlnumChars == CharsOf(UpperChars \o LowerChars \o DigitChars)

IsAlnum(c) == c \in AlnumChars

RECURSIVE AlnumRunEnd(_, _)
\* index of the last character of the longest [a-zA-Z0-9]* run starting at i
AlnumRunEnd(s, i) ==
    IF i <= Len(s) /\ IsAlnum(Char(s, i)) THEN AlnumRunEnd(s, i + 1) ELSE i - 1

\* The pattern matches at position i: the literal, one or more alphanumerics
\* and a closing "/".  The group is greedy, and every shorter run is followed
\* by an alphanumeric, so only the longest run can be followed by "/".
PatternMatchesAt(url, i) ==
    /\ StartsAt(url, i, CommentsLiteral)
    /\ LET b == i + Len(CommentsLiteral)
           e == AlnumRunEnd(url, b)
       IN  e >= b /\ StartsAt(url, e + 1, "/")

extract_post_id_from_url(url) ==
    LET hits == {i \in 1..Len(url) : PatternMatchesAt(url, i)}
    IN  IF hits # {}
        THEN LET i == CHOOSE j \in hits : \A k \in hits : j <= k   \* leftmost match
                 b == i + Len(CommentsLiteral)
             IN  [raised |-> FALSE, value |-> SubSeq(url, b, AlnumRunEnd(url, b))]
        ELSE [raised |-> TRUE, kind |-> "could_not_extract_post_id", msg |-> url]

-----------------------------------------------------------------------------
(* index_reddit_post, lines 79-102: filter the comments, build the documents *)

MIN_COMMENT_LENGTH == 50

DeletedAuthor == "[deleted]"

\* A PRAW comment: has_body is hasattr(comment, 'body'); body and author are
\* optional; score is getattr(comment, 'score', 0).
Comment(has_body, body, author, score) ==
    [has_body |-> has_body, body |-> body, author |-> author, score |-> score]

\* lines 83-88: the comment survives the two filters
KeepCommentNoStrip(comment) ==
    /\ comment.has_body
    /\ Truthy(comment.body)
    /\ Len(comment.body.v) >= MIN_COMMENT_LENGTH

KeepComment(comment) ==
    /\ comment.has_body
    /\ Truthy(comment.body)
    /\ Len(Strip(comment.body.v)) >= MIN_COMMENT_LENGTH

\* lines 90-101: Document(page_content=comment_body, metadata={...})
CommentDocument(comment, submission) ==
    [page_content |-> Strip(comment.body.v),
     metadata |->
        [author  |-> IF comment.author.t = "None" THEN DeletedAuthor
                     ELSE comment.author.v,
         score   |-> comment.score,
         source  |-> submission.title,
         post_id |-> submission.id]]

RECURSIVE BuildDocuments(_, _)
\* lines 80-102: the loop over submission.comments.list()
BuildDocuments(comments, submission) ==
    IF comments = <<>> THEN <<>>
    ELSE (IF KeepComment(Head(comments))
          THEN <<CommentDocument(Head(comments), submission)>>
          ELSE <<>>)
         \o BuildDocuments(Tail(comments), submission)

-----------------------------------------------------------------------------
(* query_reddit_post, lines 194-209, 246, 280: anonymised context, citations *)

\* doc.metadata.get(key, default)
MetadataGet(metadata, key, default) ==
    IF key \in DOMAIN metadata THEN metadata[key] ELSE default

\* line 202 with the author copied into the line
AnonymizedLineWithAuthor(i, doc) ==
    "Comment " \o ToString(i) \o " by "
        \o MetadataGet(doc.metadata, "author", DeletedAuthor)
        \o ": " \o Strip(doc.page_content)

\* lines 201-202: f"Comment {i+1}: {comment_text}"  (i is 1-based here)
AnonymizedLine(i, doc) ==
    "Comment " \o ToString(i) \o ": " \o Strip(doc.page_content)

anonymized_comments(retrieved_docs) ==
    [i \in 1..Len(retrieved_docs) |-> AnonymizedLine(i, retrieved_docs[i])]

\* lines 205-209
citation_mapping(retrieved_docs) ==
    [i \in 1..Len(retrieved_docs) |->
        [author |-> MetadataGet(retrieved_docs[i].metadata, "author", DeletedAuthor),
         comment_id |-> i]]

\* line 246
anonymized_context(retrieved_docs) ==
    Join("\n\n", anonymized_comments(retrieved_docs))

\* line 280 without the  != "[deleted]"  condition
UniqueAuthorsKeepDeleted(mapping) ==
    {mapping[i].author : i \in DOMAIN mapping}

\* line 280: set([c["author"] for c in citation_mapping if c["author"] != "[deleted]"])
UniqueAuthors(mapping) ==
    {mapping[i].author : i \in {j \in DOMAIN mapping : mapping[j].author # DeletedAuthor}}

\* list(set(...)): the elements once each, in an order Python does not fix
Orderings(S) ==
    {f \in [1..Cardinality(S) -> S] : \A i, j \in DOMAIN f : f[i] = f[j] => i = j}

-----------------------------------------------------------------------------
(* query_reddit_post, lines 264-276: run the chain, classify a failure *)

EmptyResponseMessage == "Gemini API returned an empty response"
AuthenticationPrefix ==
    "Gemini API authentication failed. Check your GOOGLE_API_KEY. Error: "
QuotaPrefix ==
    "Gemini API quota exceeded or rate limited. Please try again later. Error: "
GenericPrefix == "Failed to generate answer from Gemini API: "

\* An outcome of rag_chain.invoke(query): a returned string or an exception
Returned(value) == [raised |-> FALSE, value |-> value]
Raised(kind, msg) == [raised |-> TRUE, kind |-> kind, msg |-> msg]

\* lines 270-276
ClassifyGenerationFailure(error_msg) ==
    IF Contains(error_msg, "API key") \/ Contains(Lower(error_msg), "authentication")
    THEN Raised("authentication", AuthenticationPrefix \o error_msg)
    ELSE IF Contains(Lower(error_msg), "quota") \/ Contains(Lower(error_msg), "rate limit")
    THEN Raised("quota", QuotaPrefix \o error_msg)
    ELSE Raised("generic", GenericPrefix \o error_msg)

\* lines 265-276: the try block; the ValueError of line 268 is raised inside
\* the try and is caught by the except of line 269 like any other exception
RunChain(outcome) ==
    IF outcome.raised THEN ClassifyGenerationFailure(outcome.msg)
    ELSE IF outcome.value = "" \/ Strip(outcome.value) = ""
    THEN ClassifyGenerationFailure(EmptyResponseMessage)
    ELSE outcome

-----------------------------------------------------------------------------
(* The environment: Reddit, the uploaded files, the vector store *)

MaxDocs == 1       \* Document rows created in one behaviour
MaxCalls == 2      \* index calls that write to the store, over the Reddit collections

K_DOCUMENT == 4    \* search_kwargs={"k": 4}
K_REDDIT == 10     \* search_kwargs={"k": 10}

Pad(core, n) == core \o Rep(".", n - Len(core))

ThreadA ==
    << Comment(TRUE, Str(Pad("vim is the best editor", MIN_COMMENT_LENGTH)), Str("alice"), 1),
       Comment(TRUE, Str("  " \o Pad("emacs all the way", MIN_COMMENT_LENGTH + 9) \o "\n"), Str("bob"), 7),
       Comment(TRUE, Str(Pad("too short", MIN_COMMENT_LENGTH - 1)), Str("carol"), 3),
       Comment(TRUE, Str(Pad("comment of a removed account", MIN_COMMENT_LENGTH + 5)), None, 0),
       Comment(FALSE, None, None, 0),
       Comment(TRUE, Str(""), Str("dave"), 2),
       Comment(TRUE, Str(Pad("alice is right about vim", MIN_COMMENT_LENGTH + 2)), Str("bob"), 12),
       Comment(TRUE, Str(Pad("use whatever works for you", MIN_COMMENT_LENGTH)), Str("alice"), -4),
       Comment(TRUE, Str(Pad("nano gang", MIN_COMMENT_LENGTH + 1)), Str("bob"), 5) >>

ThreadB ==
    << Comment(TRUE, Str(Pad("tabs", MIN_COMMENT_LENGTH)), Str("frank"), 2),
       Comment(TRUE, Str(" " \o Pad("spaces", MIN_COMMENT_LENGTH - 1) \o " "), Str("grace"), 9),
       Comment(TRUE, Str(Pad("tabs for indentation, spaces for alignment", MIN_COMMENT_LENGTH + 20)), None, 4) >>

ThreadShort ==
    << Comment(TRUE, Str("lol"), Str("heidi"), 1),
       Comment(TRUE, Str(Rep(" ", MIN_COMMENT_LENGTH + 1)), Str("ivan"), 1),
       Comment(TRUE, None, None, 0) >>

PostIds == {"abc123", "xyz789", "short1", "gone00", "priv00"}

\* What reddit.submission(id=post_id) and submission.title give (lines 59-63)
RedditSubmission(post_id) ==
    CASE post_id = "abc123" ->
            [found |-> "ok", id |-> post_id, title |-> "Best editor?", comments |-> ThreadA]
      [] post_id = "xyz789" ->
            [found |-> "ok", id |-> post_id, title |-> "Tabs or spaces", comments |-> ThreadB]
      [] post_id = "short1" ->
            [found |-> "ok", id |-> post_id, title |-> "Quiet thread", comments |-> ThreadShort]
      [] post_id = "priv00" ->
            [found |-> "forbidden", id |-> post_id, title |-> "", comments |-> <<>>]
      [] OTHER ->
            [found |-> "not_found", id |-> post_id, title |-> "", comments |-> <<>>]

\* An uploaded PDF: whether UnstructuredPDFLoader reads it, and how many
\* chunks the splitter makes of it (rag_service.py lines 35-52)
DefaultFile == [name |-> "report.pdf", readable |-> TRUE, chunks |-> K_DOCUMENT + 1]

UploadedFiles ==
    { [name |-> "corrupt.pdf", readable |-> FALSE, chunks |-> 0],
      DefaultFile }


FileChunks(file) ==
    [i \in 1..file.chunks |->
        [page_content |-> file.name \o " chunk " \o ToString(i),
         metadata |-> [source |-> file.name]]]

\* collection_name = f"doc_{document_instance.id}" / f"reddit_{submission.id}"
DocKey(id) == "doc_" \o ToString(id)
RedditKey(post_id) == "reddit_" \o post_id

DocIds == 1..MaxDocs
Keys == {DocKey(id) : id \in DocIds} \cup {RedditKey(p) : p \in PostIds}

\* A stored passage: the Document plus two ghost fields naming the index call
\* that wrote it (the collection it was written to and the call's number there)
Stored(documents, key, n) ==
    [i \in 1..Len(documents) |->
        [page_content |-> documents[i].page_content,
         metadata |-> documents[i].metadata,
         key |-> key, call |-> n]]

Collection(st, key) == IF key \in DOMAIN st THEN st[key] ELSE <<>>

\* Chroma(collection_name=...): the client's get_or_create_collection
OpenCollection(st, key) ==
    [k \in DOMAIN st \cup {key} |-> Collection(st, k)]

\* Chroma.from_documents replacing what the collection held
FromDocumentsReplace(st, key, passages) ==
    [k \in DOMAIN st \cup {key} |-> IF k = key THEN passages ELSE Collection(st, k)]

\* Chroma.from_documents: opens (creates) the collection and adds the
\* documents under fresh uuid ids, so that nothing already there is replaced
FromDocuments(st, key, passages) ==
    [k \in DOMAIN st \cup {key} |->
        IF k = key THEN Collection(st, k) \o passages ELSE Collection(st, k)]

Min(a, b) == IF a <= b THEN a ELSE b

\* similarity search that ignores k
SimilaritySearchUnbounded(collection, k, rank) ==
    [i \in 1..Len(collection) |-> collection[i]]

\* retriever.invoke(query): the min(k, n) passages of the collection nearest
\* to the query.  Which passages those are depends on the embeddings; rank
\* stands for that: the passages returned are those at store positions
\* rank+1 .. rank+min(k, n).
SimilaritySearch(collection, k, rank) ==
    [i \in 1..Min(k, Len(collection)) |-> collection[i + rank]]

\* The rankings explored: every window of k passages when the collection
\* holds more than k (each passage is in one and, at the ends, out of one)
Rankings(collection, k) ==
    IF Len(collection) > k THEN 0..(Len(collection) - k) ELSE {0}

\* The Document as LangChain returns it (without the ghost fields)
Plain(passages) ==
    [i \in 1..Len(passages) |->
        [page_content |-> passages[i].page_content, metadata |-> passages[i].metadata]]

-----------------------------------------------------------------------------
(* rag_service.py index_document and views.py DocumentViewSet *)

\* One entry of history[key], made when an index call has written to the
\* collection: how many passages it wrote, and whether the call then
\* returned normally.
HistoryEntry(wrote, ok) == [wrote |-> wrote, ok |-> ok]

Logged(hist, key, entry) == [hist EXCEPT ![key] = Append(@, entry)]

\* What can go wrong in index_document besides an unreadable file:
\* the loader, the embedding model, the store write and the final
\* document_instance.save().  A failed store write leaves the store as it
\* was: the collections here are far smaller than one write batch.
IndexDocumentFaults == {"none", "load", "embeddings", "store", "save"}

\* index_document(document_instance), lines 24-79, on store st.
\* is_indexed tells whether the save() of line 75 went through.
index_document(st, hist, id, file, fault) ==
    LET key == DocKey(id)
        chunks == FileChunks(file)
        n == Len(hist[key]) + 1
        failed(stage, st2, hist2) ==
            [raised |-> TRUE, stage |-> stage, store |-> st2, history |-> hist2,
             is_indexed |-> FALSE]
    IN  IF ~file.readable \/ fault = "load"
        THEN failed("load", st, hist)
        ELSE IF fault = "embeddings"
        THEN failed("embeddings", st, hist)
        ELSE IF fault = "store"
        THEN failed("store", st, hist)
        ELSE IF fault = "save"
        THEN failed("save", FromDocuments(st, key, Stored(chunks, key, n)),
                    Logged(hist, key, HistoryEntry(Len(chunks), FALSE)))
        ELSE [raised |-> FALSE, value |-> Len(chunks),
              store |-> FromDocuments(st, key, Stored(chunks, key, n)),
              history |-> Logged(hist, key, HistoryEntry(Len(chunks), TRUE)),
              is_indexed |-> TRUE]

\* the except branch of create without the delete()
CleanupKeepsRecord(table, id) == table

\* views.py lines 42-45: the except branch of create, once perform_create has
\* set self.document_instance: document_instance.delete()
Cleanup(table, id) == [table EXCEPT ![id] = "absent"]

\* DocumentViewSet.create, lines 36-66, with perform_create, lines 26-32.
\* valid: serializer.is_valid(); insert_ok: serializer.save() went through.
DocumentCreate ==
    \E valid \in BOOLEAN :
    \E insert_ok \in (IF valid THEN BOOLEAN ELSE {TRUE}) :
    \E file \in (IF valid /\ insert_ok THEN UploadedFiles ELSE {DefaultFile}) :
    \E fault \in (IF valid /\ insert_ok /\ file.readable THEN IndexDocumentFaults
                  ELSE {"none"}) :
        /\ nextId <= MaxDocs
        /\ IF ~valid
           THEN \* is_valid(raise_exception=True) raised
                /\ response' = [op |-> "create", status |-> 400, doc_id |-> 0]
                /\ UNCHANGED <<store, docs, nextId, history>>
           ELSE IF ~insert_ok
           THEN \* serializer.save() raised: there is no document_instance
                /\ response' = [op |-> "create", status |-> 500,
                                error |-> "Indexing failed", doc_id |-> 0,
                                stage |-> "insert"]
                /\ UNCHANGED <<store, docs, nextId, history>>
           ELSE \E id \in {nextId} :
                \E r \in {index_document(store, history, id, file, fault)} :
                    /\ nextId' = nextId + 1
                    /\ store' = r.store
                    /\ history' = r.history
                    /\ IF r.raised
                       THEN /\ docs' = Cleanup([docs EXCEPT ![id] = "saved"], id)
                            /\ response' = [op |-> "create", status |-> 500,
                                            error |-> "Indexing failed",
                                            doc_id |-> id, stage |-> r.stage]
                       ELSE /\ docs' = [docs EXCEPT ![id] = "indexed"]
                            /\ response' = [op |-> "create", status |-> 201,
                                            doc_id |-> id, chunks |-> r.value]
        /\ UNCHANGED <<settings, call, ret>>

-----------------------------------------------------------------------------
(* rag_service.py query_document and views.py QueryDocumentView *)

DocumentIdInputs == {None, PyInt(0)} \cup {PyInt(id) : id \in DocIds}
DefaultQuery == Str("which editor?")
QueryInputs == {None, Str(""), Str("  "), DefaultQuery}

DefaultAnswer == "I cannot find the answer in the provided documents."
DocumentAnswers == {DefaultAnswer, ""}

QueryDocumentFaults == {"none", "embeddings", "store", "retrieve", "llm"}

\* line 127
format_docs(retrieved_docs) ==
    Join("\n\n", [i \in 1..Len(retrieved_docs) |-> retrieved_docs[i].page_content])

\* query_document(document_id, query), lines 81-145
query_document(st, document_id, query, fault, rank, answer) ==
    LET key == DocKey(document_id)
        opened == OpenCollection(st, key)
        retrieved == SimilaritySearch(opened[key], K_DOCUMENT, rank)
        failed(stage, st2, trace) ==
            [raised |-> TRUE, stage |-> stage, store |-> st2, trace |-> trace,
             retrieved |-> <<>>]
    IN  IF fault = "embeddings"
        THEN failed("embeddings", st, <<"embeddings">>)
        ELSE IF fault = "store"
        THEN failed("store", st, <<"embeddings", "store">>)
        ELSE IF fault = "retrieve"
        THEN failed("retrieve", opened, <<"embeddings", "store", "retrieve">>)
        ELSE IF fault = "llm"
        THEN failed("llm", opened, <<"embeddings", "store", "retrieve", "llm">>)
        ELSE [raised |-> FALSE, value |-> answer, store |-> opened,
              retrieved |-> retrieved, context |-> format_docs(retrieved),
              trace |-> <<"embeddings", "store", "retrieve", "llm">>]

\* QueryDocumentView.post, lines 73-97
QueryDocument ==
    \E document_id \in DocumentIdInputs, query \in QueryInputs :
        /\ IF ~Truthy(document_id) \/ ~Truthy(query)
           THEN /\ response' = [op |-> "query_document", status |-> 400,
                                document_id |-> document_id, query |-> query,
                                trace |-> <<>>]
                /\ store' = store
           ELSE \* for the accepted question every fault and every ranking,
                \* and at the first ranking every answer
                \E fault \in (IF query = DefaultQuery THEN QueryDocumentFaults
                              ELSE {"none"}) :
                \E rank \in (IF query = DefaultQuery /\ fault = "none"
                             THEN Rankings(Collection(store, DocKey(document_id.v)),
                                           K_DOCUMENT)
                             ELSE {0}) :
                \E answer \in (IF query = DefaultQuery /\ fault = "none" /\ rank = 0
                               THEN DocumentAnswers
                               ELSE {DefaultAnswer}) :
                \E r \in {query_document(store, document_id.v, query.v, fault,
                                         rank, answer)} :
                      /\ store' = r.store
                      /\ response' =
                           IF r.raised
                           THEN [op |-> "query_document", status |-> 500,
                                 document_id |-> document_id, query |-> query,
                                 key |-> DocKey(document_id.v), stage |-> r.stage,
                                 retrieved |-> r.retrieved, trace |-> r.trace]
                           ELSE [op |-> "query_document", status |-> 200,
                                 document_id |-> document_id, query |-> query,
                                 key |-> DocKey(document_id.v), answer |-> r.value,
                                 retrieved |-> r.retrieved, context |-> r.context,
                                 trace |-> r.trace]
        /\ UNCHANGED <<settings, docs, nextId, history, call, ret>>

-----------------------------------------------------------------------------
(* reddit_service.py index_reddit_post *)

ThreadUrl(post_id) == "https://www.reddit.com/r/test/comments/" \o post_id \o "/title/"

RedditUrls ==
    {ThreadUrl(p) : p \in PostIds}
        \cup {"https://www.reddit.com/r/test/comments/abc123",
              "https://example.com/no-comments-path"}

IndexRedditFaults == {"none", "fetch", "comments", "embeddings", "store"}

\* lines 80-102 for each thread of the environment
ThreadDocuments ==
    [p \in PostIds |->
        BuildDocuments(RedditSubmission(p).comments, RedditSubmission(p))]

\* line 45 for each url of the environment
ExtractedPostId == [url \in RedditUrls |-> extract_post_id_from_url(url)]

\* index_reddit_post(url), lines 34-131, on store st
index_reddit_post(cfg, st, hist, url, fault) ==
    LET extracted == ExtractedPostId[url]
        post_id == extracted.value
        submission == RedditSubmission(post_id)
        key == RedditKey(submission.id)
        documents == ThreadDocuments[post_id]
        n == Len(hist[key]) + 1
        fetched == <<"reddit_fetch">>
        listed == <<"reddit_fetch", "reddit_comments">>
        embedded == <<"reddit_fetch", "reddit_comments", "embeddings">>
        written == <<"reddit_fetch", "reddit_comments", "embeddings", "store">>
        failed(kind, msg, hist2, trace) ==
            [raised |-> TRUE, kind |-> kind, msg |-> msg, store |-> st,
             history |-> hist2, trace |-> trace]
    IN  IF extracted.raised
        THEN failed(extracted.kind, extracted.msg, hist, <<>>)
        ELSE IF ~cfg.REDDIT_CLIENT_ID \/ ~cfg.REDDIT_CLIENT_SECRET
        THEN failed("reddit_credentials_not_configured", "", hist, <<>>)
        ELSE IF ~cfg.REDDIT_USER_AGENT /\ fault = "user_agent"
        THEN \* lines 51-55: the code does not test REDDIT_USER_AGENT; whether
             \* praw.Reddit(...) refuses the missing value (None, and nothing
             \* in praw.ini or the environment) or goes on with it (an empty
             \* string, or a value praw finds elsewhere) is up to praw
             failed("praw_missing_user_agent", "", hist, <<>>)
        ELSE IF submission.found = "not_found"
        THEN failed("post_not_found", post_id, hist, fetched)
        ELSE IF submission.found = "forbidden"
        THEN failed("access_forbidden", post_id, hist, fetched)
        ELSE IF fault = "fetch"
        THEN failed("fetch_failed", post_id, hist, fetched)
        ELSE IF submission.title = ""
        THEN failed("submission_has_no_title", post_id, hist, fetched)
        ELSE IF fault = "comments"
        THEN failed("failed_to_load_comments", post_id, hist, listed)
        ELSE IF documents = <<>>
        THEN [raised |-> FALSE,
              value |-> [status |-> "error", error |-> "no_comments_of_minimum_length"],
              store |-> st, history |-> hist, trace |-> listed]
        ELSE IF fault = "embeddings"
        THEN failed("embeddings_failed", post_id, hist, embedded)
        ELSE IF fault = "store"
        THEN failed("store_failed", post_id, hist, written)
        ELSE [raised |-> FALSE,
              value |-> [status |-> "success", post_title |-> submission.title,
                         post_id |-> submission.id, comment_count |-> Len(documents),
                         original_url |-> url],
              store |-> FromDocuments(st, key, Stored(documents, key, n)),
              history |-> Logged(hist, key, HistoryEntry(Len(documents), TRUE)),
              trace |-> written]

RedditKeys == {RedditKey(p) : p \in PostIds}

\* index calls that wrote to the store, over all Reddit collections
RedditCalls(hist) ==
    LET RECURSIVE Sum(_)
        Sum(S) == IF S = {} THEN 0
                  ELSE LET k == CHOOSE x \in S : TRUE
                       IN  Len(hist[k]) + Sum(S \ {k})
    IN  Sum(RedditKeys)

\* the url names a thread that reddit.submission() finds
Fetchable(url) ==
    /\ ~ExtractedPostId[url].raised
    /\ RedditSubmission(ExtractedPostId[url].value).found = "ok"

\* what praw.Reddit(...) may do with the settings: refuse a missing user agent
UserAgentFaults(cfg) == IF cfg.REDDIT_USER_AGENT THEN {} ELSE {"user_agent"}

IndexRedditPost ==
    \E url \in RedditUrls :
    \E fault \in (IF Fetchable(url) THEN IndexRedditFaults ELSE {"none"})
                    \cup UserAgentFaults(settings) :
        \E r \in {index_reddit_post(settings, store, history, url, fault)} :
            /\ RedditCalls(r.history) <= MaxCalls
            /\ store' = r.store
            /\ history' = r.history
            /\ response' =
                 IF r.raised
                 THEN [op |-> "index_reddit_post", url |-> url, raised |-> TRUE,
                       kind |-> r.kind, msg |-> r.msg, trace |-> r.trace]
                 ELSE [op |-> "index_reddit_post", url |-> url, raised |-> FALSE,
                       value |-> r.value, trace |-> r.trace]
            /\ UNCHANGED <<settings, docs, nextId, call, ret>>

-----------------------------------------------------------------------------
(* reddit_service.py query_reddit_post *)

PostIdInputs == {None, Str(""), Str("abc123"), Str("xyz789")}
OriginalUrlInputs == {None, Str(ThreadUrl("abc123"))}

\* what rag_chain.invoke(query) does: returns a string or raises
DefaultOutcome == Returned("Editors are a matter of taste.")
ChainOutcomes ==
    {DefaultOutcome, Returned(" \n"),
     Raised("exception", "Invalid API key"),
     Raised("exception", "Quota exceeded"),
     Raised("exception", "connection reset")}

QueryRedditFaults == {"none", "embeddings", "store", "retriever", "retrieve", "llm_init"}

EmptyRetrievalTolerated(retrieved_docs) == FALSE

\* line 187: if not retrieved_docs
NoRelevantComments(retrieved_docs) == retrieved_docs = <<>>

\* query_reddit_post(post_id, query, original_url), lines 134-286, on store st
query_reddit_post(cfg, st, post_id, query, original_url, fault, rank, outcome, order) ==
    LET key == RedditKey(post_id.v)
        opened == OpenCollection(st, key)
        retrieved_docs == SimilaritySearch(opened[key], K_REDDIT, rank)
        generated == RunChain(outcome)
        t1 == <<"embeddings">>
        t2 == <<"embeddings", "store">>
        t3 == <<"embeddings", "store", "retrieve">>
        t4 == <<"embeddings", "store", "retrieve", "llm">>
        failed(kind, msg, st2, trace, got) ==
            [raised |-> TRUE, kind |-> kind, msg |-> msg, store |-> st2,
             trace |-> trace, retrieved |-> got, context |-> ""]
    IN  IF ~Truthy(post_id)
        THEN failed("post_id_required", "", st, <<>>, <<>>)
        ELSE IF ~Truthy(query)
        THEN failed("query_required", "", st, <<>>, <<>>)
        ELSE IF ~cfg.GOOGLE_API_KEY
        THEN failed("api_key_not_configured", "", st, <<>>, <<>>)
        ELSE IF fault = "embeddings"
        THEN failed("embeddings_init_failed", "", st, t1, <<>>)
        ELSE IF fault = "store"
        THEN failed("collection_load_failed", key, st, t2, <<>>)
        ELSE IF fault = "retriever"
        THEN failed("retriever_failed", "", opened, t2, <<>>)
        ELSE IF fault = "retrieve"
        THEN failed("retrieve_failed", "", opened, t3, <<>>)
        ELSE IF NoRelevantComments(retrieved_docs)
        THEN failed("no_relevant_comments", "", opened, t3, <<>>)
        ELSE IF fault = "llm_init"
        THEN failed("llm_init_failed", "", opened, t3, retrieved_docs)
        ELSE IF generated.raised
        THEN [raised |-> TRUE, kind |-> generated.kind, msg |-> generated.msg,
              store |-> opened, trace |-> t4, retrieved |-> retrieved_docs,
              context |-> anonymized_context(Plain(retrieved_docs))]
        ELSE [raised |-> FALSE,
              value |-> [answer |-> generated.value,
                         citations |-> order,
                         source_url |->
                            IF Truthy(original_url) THEN original_url.v
                            ELSE "https://www.reddit.com/comments/" \o post_id.v \o "/"],
              store |-> opened, trace |-> t4, retrieved |-> retrieved_docs,
              context |-> anonymized_context(Plain(retrieved_docs))]

\* the lists list(set(...)) of line 280 can be for the passages retrieved
CitationOrders(collection, rank) ==
    Orderings(UniqueAuthors(citation_mapping(Plain(
        SimilaritySearch(collection, K_REDDIT, rank)))))

\* The runs explored from one state: every input pair; for the accepted
\* question every fault and every ranking; at the first ranking every
\* outcome of the chain, every original_url and every order of the citations.
QueryRedditPost ==
    \E post_id \in PostIdInputs, query \in QueryInputs :
      LET checked == Truthy(post_id) /\ Truthy(query) /\ settings.GOOGLE_API_KEY
          varied == checked /\ query = DefaultQuery
          collection == IF Truthy(post_id)
                        THEN Collection(store, RedditKey(post_id.v)) ELSE <<>>
      IN
      \E fault \in (IF varied THEN QueryRedditFaults ELSE {"none"}) :
      \E rank \in (IF varied /\ fault = "none"
                   THEN Rankings(collection, K_REDDIT) ELSE {0}) :
      \E outcome \in (IF varied /\ fault = "none" /\ rank = 0 /\ collection # <<>>
                      THEN ChainOutcomes ELSE {DefaultOutcome}) :
      \E original_url \in (IF varied /\ fault = "none" /\ rank = 0
                              /\ outcome = DefaultOutcome
                           THEN OriginalUrlInputs ELSE {None}) :
      \E order \in (IF checked /\ fault = "none" /\ collection # <<>>
                       /\ outcome = DefaultOutcome
                    THEN (IF varied /\ rank = 0 /\ original_url = None
                          THEN CitationOrders(collection, rank)
                          ELSE {CHOOSE o \in CitationOrders(collection, rank) : TRUE})
                    ELSE {<<>>}) :
      \E r \in {query_reddit_post(settings, store, post_id, query, original_url,
                                   fault, rank, outcome, order)} :
              /\ store' = r.store
              /\ response' =
                   IF r.raised
                   THEN [op |-> "query_reddit_post", post_id |-> post_id,
                         query |-> query, raised |-> TRUE, kind |-> r.kind,
                         msg |-> r.msg, retrieved |-> r.retrieved,
                         context |-> r.context, trace |-> r.trace]
                   ELSE [op |-> "query_reddit_post", post_id |-> post_id,
                         query |-> query, raised |-> FALSE, value |-> r.value,
                         retrieved |-> r.retrieved, context |-> r.context,
                         trace |-> r.trace]
              /\ UNCHANGED <<settings, docs, nextId, history, call, ret>>

-----------------------------------------------------------------------------
(* The system: requests arrive one at a time, in any order *)

Idle == [fn |-> "none"]
Pending == [done |-> FALSE]

Configured ==
    [REDDIT_CLIENT_ID |-> TRUE, REDDIT_CLIENT_SECRET |-> TRUE,
     REDDIT_USER_AGENT |-> TRUE, GOOGLE_API_KEY |-> TRUE]

Init ==
    /\ settings = Configured
    /\ store = <<>>
    /\ docs = [id \in DocIds |-> "absent"]
    /\ nextId = 1
    /\ history = [key \in Keys |-> <<>>]
    /\ response = [op |-> "none"]
    /\ call = Idle
    /\ ret = Pending

Next ==
    \/ DocumentCreate
    \/ QueryDocument
    \/ IndexRedditPost
    \/ QueryRedditPost

Spec == Init /\ [][Next]_vars

-----------------------------------------------------------------------------
(* The pure functions, each applied to inputs drawn from a bounded set.    *)
(* The store is left in its initial state.                                 *)

MaxComments == 2    \* comments of a thread given to the loader
MaxRetrieved == 3   \* passages handed to the context assembler

Quiet ==
    /\ settings = Configured
    /\ store = <<>>
    /\ docs = [id \in DocIds |-> "absent"]
    /\ nextId = 1
    /\ history = [key \in Keys |-> <<>>]
    /\ response = [op |-> "none"]

SeqsUpTo(S, n) == UNION {[1..m -> S] : m \in 0..n}

\* ---- extract_post_id_from_url

UrlHosts == {"https://www.reddit.com/r/test", "https://old.reddit.com/r/vim",
             "https://example.com", ""}
UrlMiddles == {"/comments/", "/no-comments-path", "/comment/", "/comments"}
UrlSegments == {"abc123", "Zz9", ""}
UrlTails == {"", "/", "/title/", "?sort=new"}

UrlInputs ==
    {h \o m \o g \o t : h \in UrlHosts, m \in UrlMiddles, g \in UrlSegments, t \in UrlTails}

InitUrl ==
    /\ Quiet
    /\ call \in {[fn |-> "extract_post_id_from_url", url |-> u] : u \in UrlInputs}
    /\ ret = Pending

ExtractPostId ==
    /\ call.fn = "extract_post_id_from_url"
    /\ ret = Pending
    /\ ret' = [done |-> TRUE, result |-> extract_post_id_from_url(call.url)]
    /\ UNCHANGED <<settings, store, docs, nextId, history, response, call>>

SpecUrl == InitUrl /\ [][ExtractPostId]_vars

\* ---- index_reddit_post, the comment filter

Body50 == Pad("exactly fifty characters", MIN_COMMENT_LENGTH)

CommentSamples ==
    { Comment(FALSE, None, None, 0),
      Comment(TRUE, None, Str("alice"), 1),
      Comment(TRUE, Str(""), Str("alice"), 1),
      Comment(TRUE, Str(Rep(" ", MIN_COMMENT_LENGTH + 2)), Str("bob"), 2),
      Comment(TRUE, Str(Pad("one short", MIN_COMMENT_LENGTH - 1)), Str("bob"), 3),
      Comment(TRUE, Str("  " \o Pad("short once trimmed", MIN_COMMENT_LENGTH - 1) \o " \n"),
              Str("carol"), 4),
      Comment(TRUE, Str(Body50), Str("carol"), 5),
      Comment(TRUE, Str("\t" \o Body50 \o "  "), None, 6),
      Comment(TRUE, Str(Pad("one more than fifty", MIN_COMMENT_LENGTH + 1)), None, -1) }

SampleSubmission == [found |-> "ok", id |-> "abc123", title |-> "Best editor?"]

InitLoader ==
    /\ Quiet
    /\ call \in {[fn |-> "index_reddit_post", comments |-> c] :
                    c \in SeqsUpTo(CommentSamples, MaxComments)}
    /\ ret = Pending

FilterComments ==
    /\ call.fn = "index_reddit_post"
    /\ ret = Pending
    /\ ret' = [done |-> TRUE,
               documents |-> BuildDocuments(call.comments, SampleSubmission)]
    /\ UNCHANGED <<settings, store, docs, nextId, history, response, call>>

SpecLoader == InitLoader /\ [][FilterComments]_vars

\* ---- query_reddit_post, the anonymised context and the citations

Passage(text, metadata) == [page_content |-> text, metadata |-> metadata]

PassageSamples ==
    { Passage(Pad("great point by bob", MIN_COMMENT_LENGTH),
              [author |-> "alice", score |-> 1, post_id |-> "abc123"]),
      Passage(Pad("totally agree", MIN_COMMENT_LENGTH),
              [author |-> "bob", score |-> 7, post_id |-> "abc123"]),
      Passage(Pad("comment of a removed account", MIN_COMMENT_LENGTH + 3),
              [author |-> DeletedAuthor, score |-> 0, post_id |-> "abc123"]),
      Passage(Pad("totally agree", MIN_COMMENT_LENGTH),
              [score |-> 12, post_id |-> "abc123"]),
      Passage(Pad("it got 42 upvotes", MIN_COMMENT_LENGTH + 1),
              [author |-> "alice", score |-> 42, post_id |-> "abc123"]) }

\* the metadata the second run's passages carry instead
OtherMetadata ==
    { [author |-> "mallory", score |-> 1000, post_id |-> "abc123"],
      [score |-> -3, post_id |-> "abc123"] }

WithMetadata(retrieved_docs, metadata) ==
    [i \in 1..Len(retrieved_docs) |-> Passage(retrieved_docs[i].page_content, metadata)]

InitAssemble ==
    /\ Quiet
    /\ \E a \in SeqsUpTo(PassageSamples, MaxRetrieved) \ {<<>>} :
       \E b \in {a} \cup {WithMetadata(a, m) : m \in OtherMetadata} :
            call = [fn |-> "query_reddit_post", retrieved_docs |-> a, other_docs |-> b]
    /\ ret = Pending

\* lines 194-209, 246 and 280, run on both lists of passages
AssembleContext ==
    /\ call.fn = "query_reddit_post"
    /\ ret = Pending
    /\ \E order \in Orderings(UniqueAuthors(citation_mapping(call.retrieved_docs))) :
            ret' = [done |-> TRUE,
                    context |-> anonymized_context(call.retrieved_docs),
                    other_context |-> anonymized_context(call.other_docs),
                    citations |-> order]
    /\ UNCHANGED <<settings, store, docs, nextId, history, response, call>>

SpecAssemble == InitAssemble /\ [][AssembleContext]_vars

\* ---- query_reddit_post, the chain and the classification of its failure

MessagePrefixes == {"", "Error: ", "429 "}
MessageKeywords ==
    {"API key", "api key", "Api Key", "API KEY",
     "authentication", "Authentication", "AUTHENTICATION",
     "quota", "Quota", "QUOTA",
     "rate limit", "Rate Limit", "RATE LIMIT",
     "timeout", "ratelimit", "apikey"}
MessageSuffixes == {"", " not valid", " after quota check"}

FailureMessages ==
    {a \o k \o z : a \in MessagePrefixes, k \in MessageKeywords, z \in MessageSuffixes}

AnswerSamples == {"Editors are a matter of taste.", "", " ", " \n\t"}

InitGenerate ==
    /\ Quiet
    /\ call \in {[fn |-> "rag_chain.invoke", outcome |-> o] :
                    o \in {Returned(a) : a \in AnswerSamples}
                          \cup {Raised("exception", m) : m \in FailureMessages}}
    /\ ret = Pending

GenerateAnswer ==
    /\ call.fn = "rag_chain.invoke"
    /\ ret = Pending
    /\ ret' = [done |-> TRUE, result |-> RunChain(call.outcome)]
    /\ UNCHANGED <<settings, store, docs, nextId, history, response, call>>

SpecGenerate == InitGenerate /\ [][GenerateAnswer]_vars

-----------------------------------------------------------------------------
(* The Reddit operations under every configuration of the credentials *)

Settings ==
    [REDDIT_CLIENT_ID : BOOLEAN, REDDIT_CLIENT_SECRET : BOOLEAN,
     REDDIT_USER_AGENT : BOOLEAN, GOOGLE_API_KEY : BOOLEAN]

InitConfig ==
    /\ settings \in Settings
    /\ store = <<>>
    /\ docs = [id \in DocIds |-> "absent"]
    /\ nextId = 1
    /\ history = [key \in Keys |-> <<>>]
    /\ response = [op |-> "none"]
    /\ call = Idle
    /\ ret = Pending

NextConfig ==
    \/ IndexRedditPost
    \/ QueryRedditPost

SpecConfig == InitConfig /\ [][NextConfig]_vars

-----------------------------------------------------------------------------
(* Properties *)

Retrieved == IF "retrieved" \in DOMAIN response THEN response.retrieved ELSE <<>>

IsDocumentQuery == response.op = "query_document" /\ "key" \in DOMAIN response
IsRedditQuery == response.op = "query_reddit_post" /\ Truthy(response.post_id)
                    /\ Truthy(response.query)
QueriedKey ==
    IF response.op = "query_document" THEN response.key
    ELSE RedditKey(response.post_id.v)

\* C1 (as stated): the context handed to the generator contains no author
\* name and no score of the retrieved passages' metadata as a substring.
C1_ContextHasNoMetadataSubstring ==
    ret.done =>
        \A i \in DOMAIN call.retrieved_docs :
            LET metadata == call.retrieved_docs[i].metadata
            IN  /\ ("author" \in DOMAIN metadata /\ metadata.author # DeletedAuthor)
                        => ~Contains(ret.context, metadata.author)
                /\ ~Contains(ret.context, ToString(metadata.score))

SameTexts(a, b) ==
    /\ Len(a) = Len(b)
    /\ \A i \in DOMAIN a : a[i].page_content = b[i].page_content

\* C1 (amended): two runs of query_reddit_post whose retrieved passages have
\* the same texts in the same order pass the same context to the generator,
\* whatever the author and score metadata of the passages are.
C1_ContextIndependentOfMetadata ==
    (ret.done /\ SameTexts(call.retrieved_docs, call.other_docs))
        => ret.context = ret.other_context

C1_Witness ==
    /\ ret.done
    /\ Len(call.retrieved_docs) >= 2
    /\ SameTexts(call.retrieved_docs, call.other_docs)
    /\ \A i \in DOMAIN call.retrieved_docs :
            call.retrieved_docs[i].metadata # call.other_docs[i].metadata
    /\ ret.context = ret.other_context

\* C2: a retrieval against collection key K returns at most k passages (4 for
\* a document query, 10 for a Reddit query), each written by an index call on
\* K; passages indexed under another key are never returned.
C2_RetrievalBoundedAndIsolated ==
    /\ IsDocumentQuery =>
            /\ Len(Retrieved) <= 4
            /\ \A i \in DOMAIN Retrieved :
                    /\ Retrieved[i].key = DocKey(response.document_id.v)
                    /\ Retrieved[i].call \in DOMAIN history[Retrieved[i].key]
    /\ IsRedditQuery =>
            /\ Len(Retrieved) <= 10
            /\ \A i \in DOMAIN Retrieved :
                    /\ Retrieved[i].key = RedditKey(response.post_id.v)
                    /\ Retrieved[i].call \in DOMAIN history[Retrieved[i].key]

C2_Witness ==
    /\ IsRedditQuery
    /\ Len(Retrieved) = 10
    /\ Len(Collection(store, QueriedKey)) > 10
    /\ \E other \in DOMAIN store : other # QueriedKey /\ Len(store[other]) > 0

\* C3: a query whose collection key was never populated by an index call fails
\* with the collection-not-found error (line 173 for a thread; the failed
\* load of lines 92-96 for a document), and does not create the collection.
C3_QueryOfUnpopulatedKeyFails ==
    ((IsDocumentQuery \/ IsRedditQuery)
        /\ \E i \in DOMAIN response.trace : response.trace[i] = "store"
        /\ history[QueriedKey] = <<>>)
    => /\ QueriedKey \notin DOMAIN store
       /\ IF response.op = "query_document"
          THEN response.status = 500 /\ response.stage = "store"
          ELSE response.raised /\ response.kind = "collection_load_failed"

\* C4: no passage written by an index call that failed is returned by a later
\* query on the collection.
C4_FailedIndexingInvisible ==
    \A i \in DOMAIN Retrieved :
        history[Retrieved[i].key][Retrieved[i].call].ok

\* C5: when create saved a Document row and index_document raised, the row is
\* gone once the failure response is returned, so that every row of the table
\* is an indexed one; and a row is marked indexed only if the write to its
\* collection doc_<id> completed.
C5_FailedCreateRolledBack ==
    /\ (response.op = "create" /\ response.status = 500 /\ response.doc_id # 0)
            => docs[response.doc_id] = "absent"
    /\ \A id \in DocIds :
            /\ docs[id] \in {"absent", "indexed"}
            /\ docs[id] = "indexed" =>
                    /\ history[DocKey(id)] # <<>>
                    /\ DocKey(id) \in DOMAIN store
                    /\ Len(store[DocKey(id)]) >= history[DocKey(id)][1].wrote

C5_Witness ==
    /\ response.op = "create"
    /\ response.status = 500
    /\ response.doc_id # 0
    /\ response.stage = "save"
    /\ docs[response.doc_id] = "absent"
    /\ nextId > response.doc_id

RECURSIVE SumWrote(_)
SumWrote(entries) ==
    IF entries = <<>> THEN 0 ELSE Head(entries).wrote + SumWrote(Tail(entries))

\* C6: every index call on a source writes to the source's one collection key,
\* which stays queryable, and adds its passages after those already there:
\* the collection holds the passages of all calls, in call order, and two
\* runs over the same thread leave twice the passages of one.
C6_ReindexingIsAdditive ==
    \A key \in Keys :
        /\ history[key] # <<>> => key \in DOMAIN store
        /\ Len(Collection(store, key)) = SumWrote(history[key])
        /\ \A i \in DOMAIN Collection(store, key) :
                /\ store[key][i].key = key
                /\ SumWrote(SubSeq(history[key], 1, store[key][i].call - 1)) < i
                /\ i <= SumWrote(SubSeq(history[key], 1, store[key][i].call))
        /\ \A p \in PostIds :
                (key = RedditKey(p) /\ Len(history[key]) = 2)
                    => Len(Collection(store, key)) = 2 * Len(ThreadDocuments[p])

C6_Witness ==
    /\ Len(history[RedditKey("abc123")]) = 2
    /\ Len(store[RedditKey("abc123")]) = 2 * Len(ThreadDocuments["abc123"])
    /\ Len(ThreadDocuments["abc123"]) > 0
    /\ IsRedditQuery
    /\ response.post_id = Str("abc123")
    /\ Len(Retrieved) > Len(ThreadDocuments["abc123"])

AuthorOf(doc) ==
    IF "author" \in DOMAIN doc.metadata THEN doc.metadata.author ELSE DeletedAuthor

\* C7: the citations are the distinct authors of the retrieved passages
\* without "[deleted]" (a passage without author metadata counting as
\* "[deleted]"), each once.
C7_CitationsAreDistinctAuthors ==
    ret.done =>
        /\ Range(ret.citations)
              = {AuthorOf(call.retrieved_docs[i]) : i \in DOMAIN call.retrieved_docs}
                    \ {DeletedAuthor}
        /\ \A i, j \in DOMAIN ret.citations :
                ret.citations[i] = ret.citations[j] => i = j

C7_Witness ==
    /\ ret.done
    /\ [i \in DOMAIN call.retrieved_docs |-> AuthorOf(call.retrieved_docs[i])]
            = <<"alice", DeletedAuthor, "bob">>
    /\ Range(ret.citations) = {"alice", "bob"}

\* C8: every document index_reddit_post builds has a trimmed body of at least
\* 50 characters; the documents are, in order, the comments that have a body
\* whose trimmed length is at least 50, so that missing, empty and shorter
\* bodies are left out and a body of exactly 50 is kept.
C8_OnlyLongCommentsStored ==
    ret.done =>
        LET Qualifies(c) ==
                c.has_body /\ c.body.t = "str" /\ Len(Strip(c.body.v)) >= 50
            kept == SelectSeq(call.comments, Qualifies)
        IN  /\ \A i \in DOMAIN ret.documents :
                    Len(Strip(ret.documents[i].page_content)) >= 50
            /\ Len(ret.documents) = Len(kept)
            /\ \A i \in DOMAIN kept :
                    ret.documents[i].page_content = Strip(kept[i].body.v)

C8_Witness ==
    /\ ret.done
    /\ Len(call.comments) = 2
    /\ \A i \in 1..2 : call.comments[i].body.t = "str"
    /\ Len(call.comments[1].body.v) > 50
    /\ Len(Strip(call.comments[1].body.v)) = 49
    /\ Len(Strip(call.comments[2].body.v)) = 50
    /\ Len(ret.documents) = 1
    /\ Len(ret.documents[1].page_content) = 50

\* the path segment that follows the first "/comments/" of the url: the
\* characters up to the next "/", "?" or "#", or to the end of the url
SegmentAfterComments(url) ==
    LET starts == {i \in 1..Len(url) : StartsAt(url, i, CommentsLiteral)}
    IN  IF starts = {} THEN ""
        ELSE LET b == (CHOOSE i \in starts : \A j \in starts : i <= j)
                        + Len(CommentsLiteral)
                 stops == {i \in b..Len(url) : Char(url, i) \in {"/", "?", "#"}}
                 e == IF stops = {} THEN Len(url) + 1
                      ELSE CHOOSE i \in stops : \A j \in stops : i <= j
             IN  SubSeq(url, b, e - 1)

\* C9: extract_post_id_from_url returns the path segment following
\* "/comments/" whenever the url has one, followed by a "/" or not, and
\* raises for every url without such a segment.
C9_ExtractsSegmentAfterComments ==
    ret.done =>
        IF SegmentAfterComments(call.url) # ""
        THEN ~ret.result.raised /\ ret.result.value = SegmentAfterComments(call.url)
        ELSE ret.result.raised

\* C10: a failed model call is classified from its message without regard to
\* letter case: "api key" or "authentication" give the authentication error,
\* otherwise "quota" or "rate limit" the quota error, otherwise the generic
\* one; the raised error carries the original message.
C10_FailureClassifiedCaseInsensitively ==
    (ret.done /\ call.outcome.raised) =>
        LET m == Lower(call.outcome.msg)
        IN  /\ ret.result.raised
            /\ Contains(ret.result.msg, call.outcome.msg)
            /\ ret.result.kind =
                 IF Contains(m, "api key") \/ Contains(m, "authentication")
                 THEN "authentication"
                 ELSE IF Contains(m, "quota") \/ Contains(m, "rate limit")
                 THEN "quota"
                 ELSE "generic"

\* C11: when the model call returns an empty or whitespace-only string, the
\* query fails with the empty-response error as an outcome of its own: the
\* string is not returned as an answer and the failure is not one of the
\* generic, authentication or quota generation failures.
C11_EmptyResponseIsDistinctFailure ==
    (ret.done /\ ~call.outcome.raised /\ Strip(call.outcome.value) = "")
        => /\ ret.result.raised
           /\ ret.result.kind \notin {"generic", "authentication", "quota"}

Traced(stage) == \E i \in DOMAIN response.trace : response.trace[i] = stage

\* the retrieval of the query ran without raising and returned no passage
RetrievedNothing ==
    /\ IsDocumentQuery \/ IsRedditQuery
    /\ Traced("retrieve")
    /\ Retrieved = <<>>
    /\ Len(Collection(store, QueriedKey)) = 0
    /\ IF response.op = "query_document"
       THEN ~(response.status = 500 /\ response.stage = "retrieve")
       ELSE ~(response.raised /\ response.kind = "retrieve_failed")

\* C12: when retrieval returns no passage, a Reddit query fails with the
\* empty-retrieval error (line 188) and the generator is not invoked; a
\* document query invokes the generator with the empty context and, unless
\* the generator itself raises, answers with the generator's string.
C12_EmptyRetrieval ==
    RetrievedNothing =>
        IF response.op = "query_reddit_post"
        THEN /\ response.raised
             /\ response.kind = "no_relevant_comments"
             /\ ~Traced("llm")
        ELSE /\ Traced("llm")
             /\ response.status = 500 => response.stage = "llm"
             /\ response.status = 200 =>
                    /\ response.context = ""
                    /\ response.answer \in DocumentAnswers

C12_Witness ==
    /\ RetrievedNothing
    /\ response.op = "query_document"
    /\ response.status = 200
    /\ response.context = ""
    /\ response.answer = DefaultAnswer
    /\ \E p \in PostIds :
            /\ RedditKey(p) \in DOMAIN store
            /\ store[RedditKey(p)] = <<>>

\* a request value that is missing, empty or whitespace-only
Blank(x) == x.t = "None" \/ (x.t = "str" /\ Strip(x.v) = "") \/ ~Truthy(x)

\* C13: a query whose source identifier or question is missing, empty or
\* whitespace-only is rejected before dispatch (status 400 on the document
\* path, the "... is required" error of query_reddit_post): no embedder,
\* store or model call is made for it.
C13_BlankQueryRejectedBeforeDispatch ==
    /\ (response.op = "query_document"
            /\ (Blank(response.document_id) \/ Blank(response.query)))
        => response.status = 400 /\ response.trace = <<>>
    /\ (response.op = "query_reddit_post"
            /\ (Blank(response.post_id) \/ Blank(response.query)))
        => /\ response.raised
           /\ response.kind \in {"post_id_required", "query_required"}
           /\ response.trace = <<>>

\* C14: when a credential the operation needs is absent (client id, client
\* secret or user agent for index_reddit_post, the API key for
\* query_reddit_post), an otherwise valid request fails with a configuration
\* error and has made no external call and no store access.
C14_MissingCredentialFailsFast ==
    /\ (response.op = "index_reddit_post"
            /\ ~ExtractedPostId[response.url].raised
            /\ (~settings.REDDIT_CLIENT_ID \/ ~settings.REDDIT_CLIENT_SECRET
                    \/ ~settings.REDDIT_USER_AGENT))
        => /\ response.raised
           /\ response.kind \in {"reddit_credentials_not_configured",
                                 "praw_missing_user_agent"}
           /\ response.trace = <<>>
    /\ (IsRedditQuery /\ ~settings.GOOGLE_API_KEY)
        => /\ response.raised
           /\ response.kind = "api_key_not_configured"
           /\ response.trace = <<>>

====
